---- MODULE Spec2Model ----
(***************************************************************************)
(* ConnectZ: the GameBoard engine of src/src/ConnectZ.py (board state,     *)
(* place / block / remove, win detection, heuristic evaluation, minimax    *)
(* with alpha-beta pruning, the tactical shortcuts and ai_move).           *)
(*                                                                         *)
(* A GameBoard object is modelled as a record g with the field names of    *)
(* the class; every method is an operator from a record (and arguments)    *)
(* to the record after the call and the value returned.  The variables of  *)
(* the module are the fields of the one live GameBoard, and every action   *)
(* is one call of a method on it.                                          *)
(***************************************************************************)
EXTENDS Integers, Sequences, FiniteSets, TLC

(***************************************************************************)
(* Bounds of the model.  The constructor's size and target default to 10   *)
(* and 5; the model plays on a Size x Size board with runs of Target.      *)
(***************************************************************************)
Size == 3
Target == 3
\* the deepest search depth passed to ai_move
MaxDepth == 3
\* the calls made on a game after its opening
MaxCalls == 2
\* hash orders of the set of place candidates that are explored
MaxSeed == 1
WinSize == 4
MaxPieces == 4

(***************************************************************************)
(* Program constants.                                                      *)
(***************************************************************************)
INF == 1000000000
WinScore == 10000
EarlyTurns == 10
InitBlocks == 1
InitPowerMoves == 3
PowerPenalty == 50

None == <<>>

Cells == (0 .. Size - 1) \X (0 .. Size - 1)
NCells == Size * Size
\* range(size) x range(size), the order of every nested scan of the board
CellSeq == [i \in 1 .. NCells |-> <<(i - 1) \div Size, (i - 1) % Size>>]

InBounds(x, y) == 0 <= x /\ x < Size /\ 0 <= y /\ y < Size

Other(p) == IF p = "X" THEN "O" ELSE "X"

Max(a, b) == IF a >= b THEN a ELSE b
Min(a, b) == IF a <= b THEN a ELSE b

\* GameBoard.__init__
NewBoard ==
    [board |-> [c \in Cells |-> " "],
     turn |-> "X",
     last_move |-> None,
     game_over |-> FALSE,
     user_blocks_remaining |-> InitBlocks,
     ai_blocks_remaining |-> InitBlocks,
     user_power_moves_remaining |-> InitPowerMoves,
     ai_power_moves_remaining |-> InitPowerMoves,
     winning_sequence |-> <<>>,
     last_removed_tile |-> None,
     turn_count |-> 0]

\* mutant: the cell's content is not looked at
is_valid_move_AnyCell(g, x, y) == InBounds(x, y)

is_valid_move(g, x, y) == InBounds(x, y) /\ g.board[<<x, y>>] = " "

is_valid_block(g, x, y) == is_valid_move(g, x, y)

is_valid_remove(g, x, y) == InBounds(x, y) /\ g.board[<<x, y>>] = Other(g.turn)

directions == << <<0, 1>>, <<1, 0>>, <<1, 1>>, <<-1, 1>> >>

\* "0 <= nx < self.size and 0 <= ny < self.size", for the grid b of
\* self.size rows and columns
OnGrid(b, nx, ny) == <<nx, ny>> \in DOMAIN b

\* mutant: a run is followed through blocked cells
RECURSIVE Ray_ThroughBlocked(_, _, _, _, _, _)
Ray_ThroughBlocked(b, player, nx, ny, dx, dy) ==
    IF OnGrid(b, nx, ny) /\ b[<<nx, ny>>] \in {player, "B"}
    THEN <<<<nx, ny>>>> \o Ray_ThroughBlocked(b, player, nx + dx, ny + dy, dx, dy)
    ELSE <<>>

\* one while loop of check_win: the cells from (nx, ny) on, in steps of
\* (dx, dy), that are in bounds and hold player
RECURSIVE Ray(_, _, _, _, _, _)
Ray(b, player, nx, ny, dx, dy) ==
    IF OnGrid(b, nx, ny) /\ b[<<nx, ny>>] = player
    THEN <<<<nx, ny>>>> \o Ray(b, player, nx + dx, ny + dy, dx, dy)
    ELSE <<>>

\* mutant: only the positive direction is followed
RunSeq_PositiveOnly(b, x, y, d) ==
    <<<<x, y>>>> \o Ray(b, b[<<x, y>>], x + d[1], y + d[2], d[1], d[2])

\* the list `sequence` check_win builds for direction d
RunSeq(b, x, y, d) ==
    <<<<x, y>>>> \o Ray(b, b[<<x, y>>], x + d[1], y + d[2], d[1], d[2])
                 \o Ray(b, b[<<x, y>>], x - d[1], y - d[2], -d[1], -d[2])

WinDirs(b, x, y) == {i \in 1 .. 4 : Len(RunSeq(b, x, y, directions[i])) >= Target}

\* check_win's return value
check_win(b, x, y) ==
    IF b[<<x, y>>] = "B" \/ b[<<x, y>>] = " " THEN FALSE
    ELSE WinDirs(b, x, y) # {}

\* the sequence check_win stores: that of the first direction that wins
WinSeq(b, x, y) ==
    LET ds == WinDirs(b, x, y)
        i == CHOOSE j \in ds : \A k \in ds : j <= k
    IN  RunSeq(b, x, y, directions[i])

\* check_win(x, y, update_winning_sequence) as a state change
check_win_stores(g, x, y, update_winning_sequence) ==
    IF check_win(g.board, x, y) /\ update_winning_sequence
    THEN [g EXCEPT !.winning_sequence = WinSeq(g.board, x, y)]
    ELSE g

\* check_win(x, y, update_winning_sequence=True) as a state change
check_win_update(g, x, y) == check_win_stores(g, x, y, TRUE)

\* mutant: the turn passes after a winning piece too
PlaceOutcome_AlwaysSwitch(g, win, switch_turn) ==
    IF win THEN [g EXCEPT !.game_over = TRUE, !.turn = Other(g.turn)]
    ELSE IF switch_turn THEN [g EXCEPT !.turn = Other(g.turn)]
    ELSE g

\* mutant: a win does not end the game
PlaceOutcome_NeverOver(g, win, switch_turn) ==
    IF switch_turn /\ ~win THEN [g EXCEPT !.turn = Other(g.turn)] ELSE g

\* place_piece after check_win: "if win: ... elif switch_turn: ..."
PlaceOutcome(g, win, switch_turn) ==
    IF win THEN [g EXCEPT !.game_over = TRUE]
    ELSE IF switch_turn THEN [g EXCEPT !.turn = Other(g.turn)]
    ELSE g

\* mutant: the block is always taken from the user's count
DeductBlock_UserOnly(g) == [g EXCEPT !.user_blocks_remaining = @ - 1]

\* "Deduct block count"
DeductBlock(g) ==
    IF g.turn = "X"
    THEN [g EXCEPT !.user_blocks_remaining = @ - 1]
    ELSE [g EXCEPT !.ai_blocks_remaining = @ - 1]

\* place_piece(x, y, switch_turn, move_type): the board after the call and
\* the tuple returned
place_piece(g, x, y, switch_turn, move_type) ==
    IF g.game_over THEN [g |-> g, ret |-> <<FALSE, FALSE>>]
    ELSE IF move_type = "normal" THEN
        IF is_valid_move(g, x, y)
        THEN LET g1 == [g EXCEPT !.board[<<x, y>>] = g.turn,
                                 !.last_move = <<x, y>>]
                 win == check_win(g1.board, x, y)
                 g2 == check_win_update(g1, x, y)
                 g3 == PlaceOutcome(g2, win, switch_turn)
             IN  [g |-> [g3 EXCEPT !.turn_count = @ + 1],
                  ret |-> <<TRUE, win>>]
        ELSE [g |-> g, ret |-> <<FALSE, FALSE>>]
    ELSE
        IF is_valid_block(g, x, y)
        THEN [g |-> DeductBlock([g EXCEPT !.board[<<x, y>>] = "B",
                                          !.last_move = <<x, y>>]),
              ret |-> <<TRUE, TRUE>>]
        ELSE [g |-> g, ret |-> <<FALSE, FALSE>>]

block_tile(g, x, y) == place_piece(g, x, y, TRUE, "block")

\* mutant: the power move is always taken from the engine's count
DeductPowerMove_AiOnly(g) == [g EXCEPT !.ai_power_moves_remaining = @ - 1]

\* "Deduct power move count"
DeductPowerMove(g) ==
    IF g.turn = "X"
    THEN [g EXCEPT !.user_power_moves_remaining = @ - 1]
    ELSE [g EXCEPT !.ai_power_moves_remaining = @ - 1]

\* remove_tile(x, y, switch_turn): the board after the call and the flag
\* returned
remove_tile(g, x, y, switch_turn) ==
    IF is_valid_remove(g, x, y)
    THEN LET g1 == [g EXCEPT !.board[<<x, y>>] = " "]
             g2 == DeductPowerMove(g1)
             g3 == [g2 EXCEPT !.last_removed_tile = <<x, y>>]
             g4 == IF switch_turn THEN [g3 EXCEPT !.turn = Other(g.turn)]
                   ELSE g3
         IN  [g |-> [g4 EXCEPT !.turn_count = @ + 1], ret |-> TRUE]
    ELSE [g |-> g, ret |-> FALSE]

\* mutant: a full board is not looked for
is_terminal_WinOnly(g) ==
    g.last_move # None /\ check_win(g.board, g.last_move[1], g.last_move[2])

is_terminal(g) ==
    IF g.last_move # None /\ check_win(g.board, g.last_move[1], g.last_move[2])
    THEN TRUE
    ELSE \A c \in Cells : g.board[c] # " "

\* the contiguous run through (x, y) in direction d and its open ends
RunCount(b, player, x, y, d) ==
    1 + Len(Ray(b, player, x + d[1], y + d[2], d[1], d[2]))
      + Len(Ray(b, player, x - d[1], y - d[2], -d[1], -d[2]))

OpenEnd(b, player, x, y, dx, dy) ==
    LET k == Len(Ray(b, player, x + dx, y + dy, dx, dy)) + 1
        nx == x + k * dx
        ny == y + k * dy
    IN  IF InBounds(nx, ny) /\ b[<<nx, ny>>] = " " THEN 1 ELSE 0

DirScore(count, open_ends) ==
    IF count >= Target THEN 1000
    ELSE IF count = Target - 1 /\ open_ends > 0 THEN 100
    ELSE IF count = Target - 2 /\ open_ends > 1 THEN 10
    ELSE IF count = Target - 3 /\ open_ends > 1 THEN 5
    ELSE 0

RECURSIVE evaluate_position_from(_, _, _, _, _)
evaluate_position_from(b, x, y, player, i) ==
    IF i > 4 THEN 0
    ELSE DirScore(RunCount(b, player, x, y, directions[i]),
                  OpenEnd(b, player, x, y, directions[i][1], directions[i][2])
                  + OpenEnd(b, player, x, y, -directions[i][1], -directions[i][2]))
         + evaluate_position_from(b, x, y, player, i + 1)

evaluate_position(b, x, y, player) == evaluate_position_from(b, x, y, player, 1)

\* player_score of heuristic_evaluation, scanning the cells from the i-th on
RECURSIVE player_score(_, _, _)
player_score(b, player, i) ==
    IF i > NCells THEN 0
    ELSE (IF b[CellSeq[i]] = player
          THEN evaluate_position(b, CellSeq[i][1], CellSeq[i][2], player)
          ELSE 0)
         + player_score(b, player, i + 1)

\* mutant: the penalties are charged to the other player
heuristic_evaluation_SwappedPenalty(g) ==
    player_score(g.board, "O", 1)
    - (InitPowerMoves - g.user_power_moves_remaining) * PowerPenalty
    - player_score(g.board, "X", 1)
    + (InitPowerMoves - g.ai_power_moves_remaining) * PowerPenalty

heuristic_evaluation(g) ==
    player_score(g.board, "O", 1)
    - (InitPowerMoves - g.ai_power_moves_remaining) * PowerPenalty
    - player_score(g.board, "X", 1)
    + (InitPowerMoves - g.user_power_moves_remaining) * PowerPenalty

\* mutant: a win on the last move counts for the engine whoever made it
evaluate_AnyWin(g) ==
    IF g.last_move # None
       /\ check_win(g.board, g.last_move[1], g.last_move[2])
    THEN WinScore
    ELSE heuristic_evaluation(g)

evaluate(g) ==
    IF g.last_move # None
       /\ g.board[g.last_move] = "O"
       /\ check_win(g.board, g.last_move[1], g.last_move[2])
    THEN WinScore
    ELSE IF g.last_move # None
            /\ g.board[g.last_move] = "X"
            /\ check_win(g.board, g.last_move[1], g.last_move[2])
    THEN -WinScore
    ELSE heuristic_evaluation(g)

\* the cells within distance 1 of a piece that are empty
Frontier(b) ==
    {c \in Cells : b[c] = " "
        /\ \E dx \in {-1, 0, 1}, dy \in {-1, 0, 1} :
              /\ InBounds(c[1] + dx, c[2] + dy)
              /\ b[<<c[1] + dx, c[2] + dy>>] \in {"X", "O"}}

\* the set `moves` of get_valid_moves, as the cells of its place moves
PlaceCells(b) ==
    IF Frontier(b) # {} THEN Frontier(b)
    ELSE {<<Size \div 2, Size \div 2>>}

(***************************************************************************)
(* list(moves) lists a Python set of tuples that hold a string: its order  *)
(* follows the hashes, which differ from run to run.  The model explores   *)
(* the orders HashOrder(seed): the board scan rotated by seed cells, and   *)
(* for odd seeds reversed.                                                 *)
(***************************************************************************)
HashOrder(seed) ==
    [i \in 1 .. NCells |->
        IF seed % 2 = 0
        THEN CellSeq[((i - 1 + seed) % NCells) + 1]
        ELSE CellSeq[((NCells - i + seed) % NCells) + 1]]

RECURSIVE MovesOf(_, _, _, _)
\* the moves <<action, x, y>> for the cells of order that are in S
MovesOf(action, order, S, i) ==
    IF i > Len(order) THEN <<>>
    ELSE (IF order[i] \in S THEN << <<action, order[i][1], order[i][2]>> >>
          ELSE <<>>)
         \o MovesOf(action, order, S, i + 1)

\* mutant: the engine's blocks are counted for either player
HasBlocks_AiCount(g) == g.ai_blocks_remaining > 0

\* "Add block actions if blocks are remaining"
HasBlocks(g) ==
    \/ g.turn = "X" /\ g.user_blocks_remaining > 0
    \/ g.turn = "O" /\ g.ai_blocks_remaining > 0

\* mutant: no removes are listed early in the game
HasPowerMoves_NotEarly(g) ==
    /\ g.turn_count >= EarlyTurns
    /\ \/ g.turn = "X" /\ g.user_power_moves_remaining > 0
       \/ g.turn = "O" /\ g.ai_power_moves_remaining > 0

\* "Add remove actions if power moves are remaining"
HasPowerMoves(g) ==
    \/ g.turn = "X" /\ g.user_power_moves_remaining > 0
    \/ g.turn = "O" /\ g.ai_power_moves_remaining > 0

get_valid_moves(g, include_blocks, include_removes, seed) ==
    MovesOf("place", HashOrder(seed), PlaceCells(g.board), 1)
    \o (IF include_blocks /\ HasBlocks(g)
        THEN MovesOf("block", CellSeq, {c \in Cells : g.board[c] = " "}, 1)
        ELSE <<>>)
    \o (IF include_removes /\ HasPowerMoves(g)
        THEN MovesOf("remove", CellSeq,
                     {c \in Cells : g.board[c] = Other(g.turn)}, 1)
        ELSE <<>>)

(***************************************************************************)
(* minimax.  A call returns [g |-> the board after it, val |-> its value]. *)
(* TrialApply is the mutation a node applies for a move of the side        *)
(* `piece` before it recurses, TrialUndo what it does after the recursive  *)
(* call returned r (the undo, then self.last_move = None).                 *)
(***************************************************************************)
TrialApply(g, piece, action, x, y) ==
    IF action = "place"
    THEN [g EXCEPT !.board[<<x, y>>] = piece,
                   !.last_move = <<x, y>>,
                   !.turn_count = @ + 1]
    ELSE IF action = "block"
    THEN IF piece = "O"
         THEN [g EXCEPT !.board[<<x, y>>] = "B", !.ai_blocks_remaining = @ - 1]
         ELSE [g EXCEPT !.board[<<x, y>>] = "B", !.user_blocks_remaining = @ - 1]
    ELSE IF piece = "O"
         THEN [g EXCEPT !.board[<<x, y>>] = " ",
                        !.ai_power_moves_remaining = @ - 1,
                        !.turn_count = @ + 1]
         ELSE [g EXCEPT !.board[<<x, y>>] = " ",
                        !.user_power_moves_remaining = @ - 1,
                        !.turn_count = @ + 1]

\* mutant: the undo leaves last_move as the trial set it
TrialUndo_KeepLastMove(r, piece, action, x, y, removed_piece) ==
    LET h == r.g
        u == IF action = "place"
             THEN [h EXCEPT !.board[<<x, y>>] = " ", !.turn_count = @ - 1]
             ELSE IF action = "block"
             THEN IF piece = "O"
                  THEN [h EXCEPT !.board[<<x, y>>] = " ",
                                 !.ai_blocks_remaining = @ + 1]
                  ELSE [h EXCEPT !.board[<<x, y>>] = " ",
                                 !.user_blocks_remaining = @ + 1]
             ELSE IF piece = "O"
                  THEN [h EXCEPT !.board[<<x, y>>] = removed_piece,
                                 !.ai_power_moves_remaining = @ + 1,
                                 !.turn_count = @ - 1]
                  ELSE [h EXCEPT !.board[<<x, y>>] = removed_piece,
                                 !.user_power_moves_remaining = @ + 1,
                                 !.turn_count = @ - 1]
    IN  [g |-> u, val |-> r.val]

TrialUndo(r, piece, action, x, y, removed_piece) ==
    LET h == r.g
        u == IF action = "place"
             THEN [h EXCEPT !.board[<<x, y>>] = " ", !.turn_count = @ - 1]
             ELSE IF action = "block"
             THEN IF piece = "O"
                  THEN [h EXCEPT !.board[<<x, y>>] = " ",
                                 !.ai_blocks_remaining = @ + 1]
                  ELSE [h EXCEPT !.board[<<x, y>>] = " ",
                                 !.user_blocks_remaining = @ + 1]
             ELSE IF piece = "O"
                  THEN [h EXCEPT !.board[<<x, y>>] = removed_piece,
                                 !.ai_power_moves_remaining = @ + 1,
                                 !.turn_count = @ - 1]
                  ELSE [h EXCEPT !.board[<<x, y>>] = removed_piece,
                                 !.user_power_moves_remaining = @ + 1,
                                 !.turn_count = @ - 1]
    IN  [g |-> [u EXCEPT !.last_move = None], val |-> r.val]

\* the `continue` statements of the maximizing loop and of ai_move_decision
SkipMax(g, action, x, y) ==
    \/ g.last_removed_tile # None /\ <<x, y>> = g.last_removed_tile
    \/ action = "remove" /\ g.turn_count < EarlyTurns
    \/ action = "block" /\ g.ai_blocks_remaining <= 0
    \/ action = "remove" /\ g.ai_power_moves_remaining <= 0

\* the `continue` statements of the minimizing loop
SkipMin(g, action, x, y) ==
    \/ action = "block" /\ g.user_blocks_remaining <= 0
    \/ action = "remove" /\ g.user_power_moves_remaining <= 0

\* mutant: the counts are set back to those of a new game
RestorePower_Refill(r, original_ai_power_moves, original_user_power_moves) ==
    [g |-> [r.g EXCEPT !.ai_power_moves_remaining = InitPowerMoves,
                       !.user_power_moves_remaining = InitPowerMoves],
     val |-> r.val]

\* "Restore power moves counts" at the end of a node
RestorePower(r, original_ai_power_moves, original_user_power_moves) ==
    [g |-> [r.g EXCEPT !.ai_power_moves_remaining = original_ai_power_moves,
                       !.user_power_moves_remaining = original_user_power_moves],
     val |-> r.val]

\* mutant: the loop is left after the first explored move
Prune_Always(alpha, beta) == TRUE

\* beta <= alpha: break
Prune(alpha, beta) == beta <= alpha

\* the maximizing_player argument of the recursive call that follows a
\* trial move: False in the maximizing loop and in ai_move_decision, True
\* in the minimizing loop, whatever the action
ChildRole(maximizing_player, action) == ~maximizing_player

\* the candidates a node does not `continue` past
Explored(g, maximizing_player) ==
    LET moves == get_valid_moves(g, TRUE, TRUE, 0)
    IN  {moves[i] : i \in {j \in DOMAIN moves :
            IF maximizing_player
            THEN ~SkipMax(g, moves[j][1], moves[j][2], moves[j][3])
            ELSE ~SkipMin(g, moves[j][1], moves[j][2], moves[j][3])}}

RECURSIVE minimax(_, _, _, _, _, _)
RECURSIVE max_loop(_, _, _, _, _, _, _, _)
RECURSIVE min_loop(_, _, _, _, _, _, _, _)

\* the end of one iteration of the maximizing loop, r the trial's outcome
max_next(r, moves, i, depth, alpha, beta, max_eval, seed) ==
    IF Prune(Max(alpha, r.val), beta)
    THEN [g |-> r.g, val |-> Max(max_eval, r.val)]
    ELSE max_loop(r.g, moves, i + 1, depth, Max(alpha, r.val), beta,
                  Max(max_eval, r.val), seed)

max_loop(g, moves, i, depth, alpha, beta, max_eval, seed) ==
    IF i > Len(moves) THEN [g |-> g, val |-> max_eval]
    ELSE IF SkipMax(g, moves[i][1], moves[i][2], moves[i][3])
    THEN max_loop(g, moves, i + 1, depth, alpha, beta, max_eval, seed)
    ELSE max_next(
            TrialUndo(minimax(TrialApply(g, "O", moves[i][1], moves[i][2], moves[i][3]),
                              depth - 1, alpha, beta,
                              ChildRole(TRUE, moves[i][1]), seed),
                      "O", moves[i][1], moves[i][2], moves[i][3],
                      g.board[<<moves[i][2], moves[i][3]>>]),
            moves, i, depth, alpha, beta, max_eval, seed)

\* the end of one iteration of the minimizing loop
min_next(r, moves, i, depth, alpha, beta, min_eval, seed) ==
    IF Prune(alpha, Min(beta, r.val))
    THEN [g |-> r.g, val |-> Min(min_eval, r.val)]
    ELSE min_loop(r.g, moves, i + 1, depth, alpha, Min(beta, r.val),
                  Min(min_eval, r.val), seed)

min_loop(g, moves, i, depth, alpha, beta, min_eval, seed) ==
    IF i > Len(moves) THEN [g |-> g, val |-> min_eval]
    ELSE IF SkipMin(g, moves[i][1], moves[i][2], moves[i][3])
    THEN min_loop(g, moves, i + 1, depth, alpha, beta, min_eval, seed)
    ELSE min_next(
            TrialUndo(minimax(TrialApply(g, "X", moves[i][1], moves[i][2], moves[i][3]),
                              depth - 1, alpha, beta,
                              ChildRole(FALSE, moves[i][1]), seed),
                      "X", moves[i][1], moves[i][2], moves[i][3],
                      g.board[<<moves[i][2], moves[i][3]>>]),
            moves, i, depth, alpha, beta, min_eval, seed)

\* mutant: only the depth ends the recursion
minimax_DepthOnly(g, depth, alpha, beta, maximizing_player, seed) ==
    IF depth = 0 THEN [g |-> g, val |-> evaluate(g)]
    ELSE IF maximizing_player
    THEN RestorePower(max_loop(g, get_valid_moves(g, TRUE, TRUE, seed), 1,
                               depth, alpha, beta, -INF, seed),
                      g.ai_power_moves_remaining, g.user_power_moves_remaining)
    ELSE RestorePower(min_loop(g, get_valid_moves(g, TRUE, TRUE, seed), 1,
                               depth, alpha, beta, INF, seed),
                      g.ai_power_moves_remaining, g.user_power_moves_remaining)

minimax(g, depth, alpha, beta, maximizing_player, seed) ==
    IF depth = 0 \/ is_terminal(g) THEN [g |-> g, val |-> evaluate(g)]
    ELSE IF maximizing_player
    THEN RestorePower(max_loop(g, get_valid_moves(g, TRUE, TRUE, seed), 1,
                               depth, alpha, beta, -INF, seed),
                      g.ai_power_moves_remaining, g.user_power_moves_remaining)
    ELSE RestorePower(min_loop(g, get_valid_moves(g, TRUE, TRUE, seed), 1,
                               depth, alpha, beta, INF, seed),
                      g.ai_power_moves_remaining, g.user_power_moves_remaining)

\* the first empty cell, in scan order from the i-th, where `player` would
\* complete a run; None if there is none.  The trial piece is taken off
\* again on every path, so the board is as before the call.
RECURSIVE FirstWinningCell(_, _, _)
FirstWinningCell(b, player, i) ==
    IF i > NCells THEN None
    ELSE IF b[CellSeq[i]] = " "
            /\ check_win([b EXCEPT ![CellSeq[i]] = player],
                         CellSeq[i][1], CellSeq[i][2])
    THEN CellSeq[i]
    ELSE FirstWinningCell(b, player, i + 1)

find_winning_move(g) ==
    LET c == FirstWinningCell(g.board, "O", 1)
    IN  IF c = None THEN None ELSE <<"place", c[1], c[2]>>

\* mutant: the threat is answered with a block whatever blocks are left
find_blocking_move_AlwaysBlock(g) ==
    LET c == FirstWinningCell(g.board, "X", 1)
    IN  IF c = None THEN None ELSE <<"block", c[1], c[2]>>

find_blocking_move(g) ==
    LET c == FirstWinningCell(g.board, "X", 1)
    IN  IF c = None THEN None
        ELSE IF g.ai_blocks_remaining > 0 THEN <<"block", c[1], c[2]>>
        ELSE <<"place", c[1], c[2]>>

(***************************************************************************)
(* ai_move_decision.  A call returns [g |-> the board after it,            *)
(* move |-> best_move, score |-> best_score].                              *)
(***************************************************************************)
RECURSIVE decision_loop(_, _, _, _, _, _, _)

decision_next(r, moves, i, depth, best_score, best_move, seed) ==
    IF r.val > best_score
    THEN decision_loop(r.g, moves, i + 1, depth, r.val, moves[i], seed)
    ELSE decision_loop(r.g, moves, i + 1, depth, best_score, best_move, seed)

decision_loop(g, moves, i, depth, best_score, best_move, seed) ==
    IF i > Len(moves) THEN [g |-> g, move |-> best_move, score |-> best_score]
    ELSE IF SkipMax(g, moves[i][1], moves[i][2], moves[i][3])
    THEN decision_loop(g, moves, i + 1, depth, best_score, best_move, seed)
    ELSE decision_next(
            TrialUndo(minimax(TrialApply(g, "O", moves[i][1], moves[i][2], moves[i][3]),
                              depth - 1, -INF, INF,
                              ChildRole(TRUE, moves[i][1]), seed),
                      "O", moves[i][1], moves[i][2], moves[i][3],
                      g.board[<<moves[i][2], moves[i][3]>>]),
            moves, i, depth, best_score, best_move, seed)

ai_move_decision(g, depth, seed) ==
    decision_loop(g, get_valid_moves(g, TRUE, TRUE, seed), 1, depth,
                  -INF, None, seed)

Decided(d) == [g |-> d.g, move |-> d.move]

\* mutant: the opponent's threat is looked for before the engine's own win
SelectMove_ThreatFirst(g, depth, seed) ==
    IF find_blocking_move(g) # None
    THEN [g |-> g, move |-> find_blocking_move(g)]
    ELSE IF find_winning_move(g) # None
    THEN [g |-> g, move |-> find_winning_move(g)]
    ELSE Decided(ai_move_decision(g, depth, seed))

\* the move ai_move selects and the board after the selection
SelectMove(g, depth, seed) ==
    IF find_winning_move(g) # None
    THEN [g |-> g, move |-> find_winning_move(g)]
    ELSE IF find_blocking_move(g) # None
    THEN [g |-> g, move |-> find_blocking_move(g)]
    ELSE Decided(ai_move_decision(g, depth, seed))

\* mutant: the turn is handed to the human after a place only
HandOver_PlaceOnly(g, action, win) ==
    IF action = "place" /\ ~win THEN [g EXCEPT !.turn = "X"] ELSE g

\* "After AI's move, switch turn back to human if necessary"
HandOver(g, action, win) ==
    IF action = "place" THEN (IF win THEN g ELSE [g EXCEPT !.turn = "X"])
    ELSE IF action = "remove" THEN [g EXCEPT !.turn = "X"]
    ELSE g

\* "if move:" of ai_move: apply the selected move, hand over the turn
ApplyMove(g, move) ==
    IF move = None THEN [g |-> g, ret |-> <<None, FALSE>>]
    ELSE IF move[1] = "place"
    THEN LET p == place_piece(g, move[2], move[3], FALSE, "normal").g
             win == check_win(p.board, move[2], move[3])
             q == check_win_update(p, move[2], move[3])
         IN  [g |-> HandOver(q, "place", win), ret |-> <<move, win>>]
    ELSE IF move[1] = "block"
    THEN [g |-> HandOver(block_tile(g, move[2], move[3]).g, "block", FALSE),
          ret |-> <<move, FALSE>>]
    ELSE [g |-> HandOver(remove_tile(g, move[2], move[3], FALSE).g, "remove", FALSE),
          ret |-> <<move, FALSE>>]

ApplySelected(sel) == ApplyMove(sel.g, sel.move)

\* mutant: the game_over test at the top is missing
ai_move_NoGuard(g, depth, seed) == ApplySelected(SelectMove(g, depth, seed))

\* ai_move(depth): the board after the call and <<move, win>> of the tuple
\* returned (the runtime, a wall-clock reading, is left out)
ai_move(g, depth, seed) ==
    IF g.game_over THEN [g |-> g, ret |-> <<None, FALSE>>]
    ELSE ApplySelected(SelectMove(g, depth, seed))

(***************************************************************************)
(* The live game: the fields of the GameBoard, the last call made on it,   *)
(* what that call returned, and the number of calls made so far; gui is    *)
(* the state of the ConnectZGUI that owns the board.                       *)
(***************************************************************************)
VARIABLES board, turn, last_move, game_over,
          user_blocks_remaining, ai_blocks_remaining,
          user_power_moves_remaining, ai_power_moves_remaining,
          winning_sequence, last_removed_tile, turn_count,
          call, ret, calls, gui

fields == <<board, turn, last_move, game_over,
            user_blocks_remaining, ai_blocks_remaining,
            user_power_moves_remaining, ai_power_moves_remaining,
            winning_sequence, last_removed_tile, turn_count>>

vars == <<fields, call, ret, calls, gui>>

\* the live GameBoard as a record
Game ==
    [board |-> board,
     turn |-> turn,
     last_move |-> last_move,
     game_over |-> game_over,
     user_blocks_remaining |-> user_blocks_remaining,
     ai_blocks_remaining |-> ai_blocks_remaining,
     user_power_moves_remaining |-> user_power_moves_remaining,
     ai_power_moves_remaining |-> ai_power_moves_remaining,
     winning_sequence |-> winning_sequence,
     last_removed_tile |-> last_removed_tile,
     turn_count |-> turn_count]

\* the live GameBoard is h
Is(h) ==
    /\ board = h.board
    /\ turn = h.turn
    /\ last_move = h.last_move
    /\ game_over = h.game_over
    /\ user_blocks_remaining = h.user_blocks_remaining
    /\ ai_blocks_remaining = h.ai_blocks_remaining
    /\ user_power_moves_remaining = h.user_power_moves_remaining
    /\ ai_power_moves_remaining = h.ai_power_moves_remaining
    /\ winning_sequence = h.winning_sequence
    /\ last_removed_tile = h.last_removed_tile
    /\ turn_count = h.turn_count

\* the live GameBoard becomes h
Becomes(h) ==
    /\ board' = h.board
    /\ turn' = h.turn
    /\ last_move' = h.last_move
    /\ game_over' = h.game_over
    /\ user_blocks_remaining' = h.user_blocks_remaining
    /\ ai_blocks_remaining' = h.ai_blocks_remaining
    /\ user_power_moves_remaining' = h.user_power_moves_remaining
    /\ ai_power_moves_remaining' = h.ai_power_moves_remaining
    /\ winning_sequence' = h.winning_sequence
    /\ last_removed_tile' = h.last_removed_tile
    /\ turn_count' = h.turn_count

\* a call returned r
Returns(r) == Becomes(r.g) /\ ret' = r.ret

(***************************************************************************)
(* The ConnectZGUI fields that decide what happens next: the two modes,    *)
(* the board buttons whose state is 'normal', the pending                  *)
(* root.after(100, self.ai_move) timers, the threads running               *)
(* perform_ai_move and the pending root.after(0, self.update_ai_move, ...) *)
(* callbacks; restarts counts the restarts confirmed so far.               *)
(***************************************************************************)
NewGui ==
    [block_mode |-> FALSE, remove_mode |-> FALSE, enabled |-> Cells,
     timers |-> 0, workers |-> <<>>, callbacks |-> <<>>, restarts |-> 0]

(***************************************************************************)
(* Openings.  A game starts from a new board; to reach the middle and the  *)
(* end of a game within MaxCalls calls, the model also starts from the     *)
(* boards that fixed sequences of place_piece, block_tile and remove_tile  *)
(* calls (each by the player whose turn it is, switch_turn = True) lead to *)
(* from a new board.                                                       *)
(***************************************************************************)
Do(g, c) ==
    IF c[1] = "place" THEN place_piece(g, c[2], c[3], TRUE, "normal").g
    ELSE IF c[1] = "block" THEN block_tile(g, c[2], c[3]).g
    ELSE remove_tile(g, c[2], c[3], TRUE).g

RECURSIVE Replay(_, _, _)
Replay(g, script, i) ==
    IF i > Len(script) THEN g ELSE Replay(Do(g, script[i]), script, i + 1)

\* X blocks the centre and places: O to move
BlockedCentre == << <<"block", 1, 1>>, <<"place", 0, 0>> >>
\* X holds two in a row, O one piece: O to move
Threat == << <<"place", 0, 0>>, <<"place", 2, 2>>, <<"place", 0, 1>> >>
\* both hold two in a row: O to move
Race == << <<"place", 0, 0>>, <<"place", 1, 0>>, <<"place", 0, 1>>,
           <<"place", 1, 1>>, <<"place", 2, 2>> >>
\* eleven turns into a game, X has spent its power moves: O to move
MidGame == << <<"place", 0, 2>>, <<"place", 1, 1>>, <<"place", 1, 0>>,
              <<"place", 0, 0>>, <<"remove", 0, 0>>, <<"place", 0, 1>>,
              <<"place", 2, 1>>, <<"place", 2, 0>>, <<"remove", 2, 0>>,
              <<"place", 0, 0>>, <<"remove", 0, 0>> >>

\* a game that ends in a draw with X's next piece
NearlyFull == << <<"place", 0, 0>>, <<"place", 0, 1>>, <<"place", 0, 2>>,
                 <<"place", 1, 1>>, <<"place", 1, 0>>, <<"place", 1, 2>>,
                 <<"place", 2, 1>>, <<"place", 2, 0>> >>

Openings == {<<>>, BlockedCentre, Threat, Race, MidGame}

Init ==
    /\ \E script \in Openings \cup {NearlyFull} : Is(Replay(NewBoard, script, 1))
    /\ call = [op |-> "new"]
    /\ ret = None
    /\ calls = 0
    /\ gui = NewGui

\* coordinates a caller may pass: the cells, and some outside the board
Args == Cells \cup {<<-1, 0>>, <<0, Size>>}
Depths == 1 .. MaxDepth
Seeds == 0 .. MaxSeed

\* one more call is made
Called == calls < MaxCalls /\ calls' = calls + 1 /\ gui' = gui

\* the current player calls place_piece(x, y)
Place(x, y) ==
    /\ Called
    /\ call' = [op |-> "place", x |-> x, y |-> y]
    /\ Returns(place_piece(Game, x, y, TRUE, "normal"))

\* the current player calls block_tile(x, y)
Block(x, y) ==
    /\ Called
    /\ call' = [op |-> "block", x |-> x, y |-> y]
    /\ Returns(block_tile(Game, x, y))

\* the current player calls remove_tile(x, y, switch_turn)
Remove(x, y, switch_turn) ==
    /\ Called
    /\ call' = [op |-> "remove", x |-> x, y |-> y, switch_turn |-> switch_turn]
    /\ Returns(remove_tile(Game, x, y, switch_turn))

\* ai_move(depth) is called; seed is the hash order of this run
AiMove(depth, seed) ==
    /\ Called
    /\ call' = [op |-> "ai_move", depth |-> depth]
    /\ Returns(ai_move(Game, depth, seed))

Next ==
    \/ \E c \in Args : Place(c[1], c[2])
    \/ \E c \in Args : Block(c[1], c[2])
    \/ \E c \in Args, sw \in BOOLEAN : Remove(c[1], c[2], sw)
    \/ \E depth \in Depths, seed \in Seeds : AiMove(depth, seed)

Spec == Init /\ [][Next]_vars

\* the depths ai_move_decision(depth) calls minimax with: depth - 1
SearchDepths == 0 .. MaxDepth - 1

\* alpha-beta windows a caller passes to minimax: the full one of
\* ai_move_decision and a narrow one
Windows == {<<-INF, INF>>, <<-1, 1>>}

\* the search returned d: the board it leaves, and its move or its value
Chosen(d) == Becomes(d.g) /\ ret' = d.move
Valued(r) == Becomes(r.g) /\ ret' = r.val

\* ai_move_decision(depth) is called on the live board
Decide(depth, seed) ==
    /\ Called
    /\ call' = [op |-> "ai_move_decision", depth |-> depth]
    /\ Chosen(ai_move_decision(Game, depth, seed))

\* minimax(depth, alpha, beta, maximizing_player) is called on the live board
Search(depth, w, maximizing_player, seed) ==
    /\ Called
    /\ call' = [op |-> "minimax", depth |-> depth, alpha |-> w[1],
                beta |-> w[2], maximizing_player |-> maximizing_player]
    /\ Valued(minimax(Game, depth, w[1], w[2], maximizing_player, seed))

NextSearch ==
    \/ \E c \in Args : Place(c[1], c[2])
    \/ \E c \in Args : Block(c[1], c[2])
    \/ \E c \in Args, sw \in BOOLEAN : Remove(c[1], c[2], sw)
    \/ \E depth \in Depths, seed \in Seeds : Decide(depth, seed)
    \/ \E depth \in SearchDepths, w \in Windows, m \in BOOLEAN, seed \in Seeds :
          Search(depth, w, m, seed)

\* a game O has won
Finished == Race \o << <<"place", 1, 2>> >>

\* seven turns into a game, two blocks on the board and three empty cells,
\* one of them just vacated by X's remove: O to move
Boxed == << <<"block", 0, 0>>, <<"place", 0, 1>>, <<"place", 0, 2>>,
            <<"place", 1, 1>>, <<"place", 1, 0>>, <<"place", 1, 2>>,
            <<"place", 2, 1>>, <<"remove", 2, 1>> >>

\* two pieces later the vacated cell is the only empty one
Cornered == Boxed \o << <<"place", 2, 0>>, <<"place", 2, 2>> >>

InitSearch ==
    /\ \E script \in Openings \cup {Finished, Boxed, Cornered} :
          Is(Replay(NewBoard, script, 1))
    /\ call = [op |-> "new"]
    /\ ret = None
    /\ calls = 0
    /\ gui = NewGui

SpecSearch == InitSearch /\ [][NextSearch]_vars

(***************************************************************************)
(* The queries: find_winning_move and find_blocking_move are called on     *)
(* the live board.  Their scan writes a trial piece on each empty cell it  *)
(* visits and takes it off again; AfterScan is the board the scan leaves.  *)
(***************************************************************************)
\* "self.board[x][y] = player"
TrialPiece(g, player, c) == [g EXCEPT !.board[c] = player]

\* mutant: the trial piece stays on the cell
UndoTrialPiece_Stays(g, c) == g

\* "self.board[x][y] = ' '  # Undo move"
UndoTrialPiece(g, c) == [g EXCEPT !.board[c] = " "]

RECURSIVE AfterScan(_, _, _)
AfterScan(g, player, i) ==
    IF i > NCells THEN g
    ELSE IF g.board[CellSeq[i]] # " " THEN AfterScan(g, player, i + 1)
    ELSE IF check_win(TrialPiece(g, player, CellSeq[i]).board,
                      CellSeq[i][1], CellSeq[i][2])
    THEN UndoTrialPiece(TrialPiece(g, player, CellSeq[i]), CellSeq[i])
    ELSE AfterScan(UndoTrialPiece(TrialPiece(g, player, CellSeq[i]), CellSeq[i]),
                   player, i + 1)

\* X holds two in a row: X to move
Advantage == << <<"place", 0, 0>>, <<"place", 1, 0>>, <<"place", 0, 1>>,
                <<"place", 2, 2>> >>

InitQueries ==
    /\ \E script \in Openings \cup {NearlyFull, Advantage} :
          Is(Replay(NewBoard, script, 1))
    /\ call = [op |-> "new"]
    /\ ret = None
    /\ calls = 0
    /\ gui = NewGui

\* find_winning_move() is called
FindWinningMove ==
    /\ Called
    /\ call' = [op |-> "find_winning_move"]
    /\ Becomes(AfterScan(Game, "O", 1))
    /\ ret' = find_winning_move(Game)

\* find_blocking_move() is called
FindBlockingMove ==
    /\ Called
    /\ call' = [op |-> "find_blocking_move"]
    /\ Becomes(AfterScan(Game, "X", 1))
    /\ ret' = find_blocking_move(Game)

\* get_valid_moves(include_blocks, include_removes) is called; seed is the
\* hash order of this run
GetValidMoves(include_blocks, include_removes, seed) ==
    /\ Called
    /\ call' = [op |-> "get_valid_moves", include_blocks |-> include_blocks,
                include_removes |-> include_removes]
    /\ UNCHANGED fields
    /\ ret' = get_valid_moves(Game, include_blocks, include_removes, seed)

\* is_terminal() is called
IsTerminal ==
    /\ Called
    /\ call' = [op |-> "is_terminal"]
    /\ UNCHANGED fields
    /\ ret' = is_terminal(Game)

\* evaluate() is called
Evaluate ==
    /\ Called
    /\ call' = [op |-> "evaluate"]
    /\ UNCHANGED fields
    /\ ret' = evaluate(Game)

\* heuristic_evaluation() is called
HeuristicEvaluation ==
    /\ Called
    /\ call' = [op |-> "heuristic_evaluation"]
    /\ UNCHANGED fields
    /\ ret' = heuristic_evaluation(Game)

NextQueries ==
    \/ HeuristicEvaluation
    \/ \E c \in Args : Place(c[1], c[2])
    \/ \E c \in Args : Block(c[1], c[2])
    \/ \E c \in Args, sw \in BOOLEAN : Remove(c[1], c[2], sw)
    \/ FindWinningMove
    \/ FindBlockingMove
    \/ \E ib \in BOOLEAN, ir \in BOOLEAN, seed \in Seeds : GetValidMoves(ib, ir, seed)
    \/ IsTerminal
    \/ Evaluate

SpecQueries == InitQueries /\ [][NextQueries]_vars

(***************************************************************************)
(* check_win as a function of the grid: it is called at every cell of      *)
(* grids of WinSize rows and columns that hold up to MaxPieces pieces and  *)
(* blocked cells.                                                          *)
(***************************************************************************)
WinCells == (0 .. WinSize - 1) \X (0 .. WinSize - 1)

PieceSets == {S \in SUBSET WinCells : Cardinality(S) <= MaxPieces}

GridOf(S, f) == [c \in WinCells |-> IF c \in S THEN f[c] ELSE " "]

InitBoards ==
    /\ \E S \in PieceSets : \E f \in [S -> {"X", "O", "B"}] :
          Is([NewBoard EXCEPT !.board = GridOf(S, f)])
    /\ call = [op |-> "new"]
    /\ ret = None
    /\ calls = 0
    /\ gui = NewGui

\* check_win(x, y) is called
CheckWin(x, y) ==
    /\ calls = 0 /\ calls' = 1 /\ gui' = gui
    /\ call' = [op |-> "check_win", x |-> x, y |-> y]
    /\ Becomes(check_win_update(Game, x, y))
    /\ ret' = check_win(board, x, y)

\* check_win(x, y, update_winning_sequence=False) is called once a winning
\* sequence is stored
CheckWinOnly(x, y) ==
    /\ calls = 1 /\ calls' = 2 /\ gui' = gui
    /\ winning_sequence # None
    /\ call' = [op |-> "check_win_only", x |-> x, y |-> y]
    /\ Becomes(check_win_stores(Game, x, y, FALSE))
    /\ ret' = check_win(board, x, y)

NextBoards ==
    \E c \in WinCells : CheckWin(c[1], c[2]) \/ CheckWinOnly(c[1], c[2])

SpecBoards == InitBoards /\ [][NextBoards]_vars

(***************************************************************************)
(* The presentation layer, ConnectZGUI, as far as it decides which calls   *)
(* reach the board and when.  The Tk main loop runs one handler at a time: *)
(* a click on a board button whose state is 'normal', a click on the       *)
(* Block, Remove or Restart button, a due timer, a due callback.  A thread *)
(* running perform_ai_move takes two steps that interleave with the        *)
(* handlers: it enters self.game.ai_move(depth) on the board self.game     *)
(* names at that moment; ai_move runs, returns, and the thread posts       *)
(* update_ai_move to the main loop.  Labels and colours are left out.      *)
(***************************************************************************)
\* events of one run, threads alive at once, timers pending at once,
\* restarts of one run
MaxEvents == 9
MaxWorkers == 2
MaxTimers == 1
MaxRestarts == 1

\* get_minimax_depth(): 2 for Easy, 3 for Medium, 4 for Hard; the levels up
\* to MaxLevelDepth are played
MaxLevelDepth == 2
GuiDepths == 2 .. MaxLevelDepth

\* update_buttons(): the buttons it leaves in state 'normal'
update_buttons(g, u) ==
    IF u.remove_mode THEN Cells ELSE {c \in Cells : g.board[c] = " "}

\* end_game(): game_over is set, the buttons are disabled and updated
end_game(g, u) ==
    [g |-> [g EXCEPT !.game_over = TRUE],
     u |-> [u EXCEPT !.enabled = update_buttons(g, u)]]

\* the test of check_draw_after_move and check_draw_after_ai_move
IsDraw(g) ==
    /\ is_terminal(g)
    /\ g.last_move # None
    /\ ~check_win(g.board, g.last_move[1], g.last_move[2])

check_draw_after_move(g, u) ==
    IF IsDraw(g) THEN end_game(g, u) ELSE [g |-> g, u |-> u]

\* a handler that only leaves its mode: "self.remove_mode = False" or
\* "self.block_mode = False", then update_buttons()
LeaveMode(g, u) ==
    LET u1 == [u EXCEPT !.remove_mode = FALSE, !.block_mode = FALSE]
    IN  [g |-> g, u |-> [u1 EXCEPT !.enabled = update_buttons(g, u1)],
         applied |-> "none"]

\* disable_all_buttons(); update_buttons(); root.after(100, self.ai_move)
ScheduleEngine(g, u) ==
    [u EXCEPT !.enabled = update_buttons(g, u), !.timers = @ + 1]

\* handle_click(x, y) in remove mode
ClickRemove(g, u, x, y) ==
    IF g.user_power_moves_remaining <= 0 THEN LeaveMode(g, u)
    ELSE IF g.board[<<x, y>>] = "O" /\ remove_tile(g, x, y, TRUE).ret
    THEN LET g1 == remove_tile(g, x, y, TRUE).g
             u1 == ScheduleEngine(g1, [u EXCEPT !.remove_mode = FALSE])
             d == check_draw_after_move(g1, u1)
         IN  [g |-> d.g, u |-> d.u, applied |-> "remove"]
    ELSE LeaveMode(g, u)

\* handle_click(x, y) in block mode
ClickBlock(g, u, x, y) ==
    IF g.user_blocks_remaining <= 0 THEN LeaveMode(g, u)
    ELSE IF block_tile(g, x, y).ret[1]
    THEN LET g1 == block_tile(g, x, y).g
             u1 == [u EXCEPT !.block_mode = FALSE]
         IN  [g |-> g1, u |-> [u1 EXCEPT !.enabled = update_buttons(g1, u1)],
              applied |-> "block"]
    ELSE [g |-> g, u |-> u, applied |-> "none"]

\* handle_click(x, y), regular piece placement
ClickPlace(g, u, x, y) ==
    LET r == place_piece(g, x, y, TRUE, "normal")
    IN  IF ~r.ret[1] THEN [g |-> g, u |-> u, applied |-> "none"]
        ELSE IF r.ret[2]
        THEN [g |-> end_game(r.g, u).g, u |-> end_game(r.g, u).u,
              applied |-> "place"]
        ELSE LET d == check_draw_after_move(r.g, u)
             IN  [g |-> d.g, u |-> ScheduleEngine(d.g, d.u), applied |-> "place"]

handle_click(g, u, x, y) ==
    IF g.game_over \/ g.turn # "X" THEN [g |-> g, u |-> u, applied |-> "none"]
    ELSE IF u.remove_mode THEN ClickRemove(g, u, x, y)
    ELSE IF u.block_mode THEN ClickBlock(g, u, x, y)
    ELSE ClickPlace(g, u, x, y)

\* the end of update_ai_move: the draw check, the buttons, and
\* "if not self.game.game_over and action != 'block': self.game.turn = 'X'"
AfterAiMove(g, u, action) ==
    LET d == IF IsDraw(g) THEN end_game(g, u) ELSE [g |-> g, u |-> u]
        g1 == IF ~d.g.game_over /\ action # "block"
              THEN [d.g EXCEPT !.turn = "X"] ELSE d.g
    IN  [g |-> g1, u |-> [d.u EXCEPT !.enabled = update_buttons(g1, d.u)]]

\* the block branch of update_ai_move: r is what the additional
\* self.game.ai_move(depth) call gave
AdditionalMove(r, u) ==
    IF r.ret[1] # None /\ r.ret[1][1] = "place" /\ r.ret[2]
    THEN end_game(r.g, u)
    ELSE IF r.ret[1] # None /\ r.ret[1][1] = "remove"
    THEN AfterAiMove(remove_tile(r.g, r.ret[1][2], r.ret[1][3], FALSE).g, u, "block")
    ELSE AfterAiMove(r.g, u, "block")

\* update_ai_move(move, runtime, win) on the board self.game names
update_ai_move(g, u, move, win, depth, seed) ==
    IF move = None THEN end_game(g, u)
    ELSE IF move[1] = "place"
    THEN IF win THEN end_game(g, u) ELSE AfterAiMove(g, u, "place")
    ELSE IF move[1] = "block"
    THEN AdditionalMove(ai_move(g, depth, seed), u)
    ELSE AfterAiMove(remove_tile(g, move[2], move[3], TRUE).g, u, "remove")

\* a step of the GUI: the board becomes s.g and the GUI s.u
Shows(s) == Becomes(s.g) /\ gui' = s.u

Event == calls < MaxEvents /\ calls' = calls + 1 /\ ret' = None

\* the human clicks the board button (x, y), whose state is 'normal'
Click(x, y) ==
    /\ Event
    /\ <<x, y>> \in gui.enabled
    /\ gui.timers < MaxTimers
    /\ LET s == handle_click(Game, gui, x, y)
       IN  /\ s.g # Game \/ s.u # gui
           /\ call' = [op |-> "handle_click", x |-> x, y |-> y,
                       applied |-> s.applied]
           /\ Shows(s)

\* the human clicks the Block button: activate_block_mode()
ActivateBlockMode ==
    /\ Event
    /\ user_blocks_remaining > 0 /\ turn = "X"
    /\ call' = [op |-> "activate_block_mode"]
    /\ UNCHANGED fields
    /\ LET u == [gui EXCEPT !.block_mode = TRUE, !.remove_mode = FALSE]
       IN  gui' = [u EXCEPT !.enabled = update_buttons(Game, u)]

\* the human clicks the Remove button: activate_remove_mode()
ActivateRemoveMode ==
    /\ Event
    /\ user_power_moves_remaining > 0 /\ turn = "X"
    /\ call' = [op |-> "activate_remove_mode"]
    /\ UNCHANGED fields
    /\ LET u == [gui EXCEPT !.remove_mode = TRUE, !.block_mode = FALSE]
       IN  gui' = [u EXCEPT !.enabled = update_buttons(Game, u)]

\* a timer set by root.after(100, self.ai_move) is due: ConnectZGUI.ai_move
EngineTimer ==
    /\ Event
    /\ gui.timers > 0
    /\ game_over \/ Len(gui.workers) < MaxWorkers
    /\ call' = [op |-> "gui_ai_move"]
    /\ UNCHANGED fields
    /\ gui' = IF game_over THEN [gui EXCEPT !.timers = @ - 1]
              ELSE [gui EXCEPT !.timers = @ - 1, !.enabled = {},
                               !.workers = Append(@, [pc |-> "start", live |-> TRUE,
                                                      g |-> None, depth |-> 0])]

\* thread i evaluates self.game.ai_move(depth): the call is entered on the
\* board self.game names now
WorkerEnter(i, depth) ==
    /\ Event
    /\ i \in DOMAIN gui.workers /\ gui.workers[i].pc = "start"
    /\ call' = [op |-> "ai_move_enter", depth |-> depth]
    /\ UNCHANGED fields
    /\ gui' = [gui EXCEPT !.workers[i].pc = "exec", !.workers[i].depth = depth]

\* the ai_move call of thread i runs and returns, on the live board or on
\* the board a restart has replaced; the thread then calls
\* root.after(0, self.update_ai_move, move, runtime, win) and ends
WorkerReturn(i, seed) ==
    /\ Event
    /\ i \in DOMAIN gui.workers /\ gui.workers[i].pc = "exec"
    /\ LET w == gui.workers[i]
           r == ai_move(IF w.live THEN Game ELSE w.g, w.depth, seed)
       IN  /\ call' = [op |-> "ai_move_return", live |-> w.live, move |-> r.ret[1]]
           /\ IF w.live THEN Becomes(r.g) ELSE UNCHANGED fields
           /\ gui' = [gui EXCEPT
                        !.workers = [j \in 1 .. Len(@) - 1 |->
                                       IF j < i THEN @[j] ELSE @[j + 1]],
                        !.callbacks = Append(@, r.ret)]

\* the main loop runs the oldest pending update_ai_move
UpdateAiMove(depth, seed) ==
    /\ Event
    /\ gui.callbacks # <<>>
    /\ LET out == Head(gui.callbacks)
           u == [gui EXCEPT !.callbacks = Tail(@)]
       IN  /\ call' = [op |-> "update_ai_move", move |-> out[1], win |-> out[2]]
           /\ Shows(update_ai_move(Game, u, out[1], out[2], depth, seed))

\* no timer is pending, no thread is alive and no callback is pending:
\* nothing but the human can make the next step
Quiescent ==
    gui.timers = 0 /\ gui.workers = <<>> /\ gui.callbacks = <<>>

\* a thread is inside ai_move on the board self.game names
Thinking ==
    \E i \in DOMAIN gui.workers :
        gui.workers[i].pc = "exec" /\ gui.workers[i].live

\* the human clicks Restart and confirms: restart_game().  A thread inside
\* ai_move keeps the board it was called on.  The restarts followed are
\* those made while the engine is thinking.
Restart ==
    /\ Event
    /\ gui.restarts < MaxRestarts
    /\ Thinking
    /\ call' = [op |-> "restart_game"]
    /\ Becomes(NewBoard)
    /\ gui' = [gui EXCEPT
                 !.block_mode = FALSE, !.remove_mode = FALSE, !.enabled = Cells,
                 !.restarts = @ + 1,
                 !.workers = [j \in DOMAIN @ |->
                                IF @[j].pc = "exec" /\ @[j].live
                                THEN [@[j] EXCEPT !.live = FALSE, !.g = Game]
                                ELSE @[j]]]

\* the last human move of a game played on the GUI: X to move, one of O's
\* pieces removed, X one piece from a line
Endgame == << <<"place", 0, 0>>, <<"place", 1, 1>>, <<"place", 1, 2>>,
              <<"place", 0, 2>>, <<"remove", 0, 2>>, <<"place", 0, 1>>,
              <<"place", 2, 1>>, <<"place", 2, 2>> >>

InitPlay ==
    /\ \E script \in {Endgame} : Is(Replay(NewBoard, script, 1))
    /\ call = [op |-> "new"]
    /\ ret = None
    /\ calls = 0
    /\ gui = [NewGui EXCEPT !.enabled = {c \in Cells : board[c] = " "}]

NextPlay ==
    \/ \E c \in Cells : Click(c[1], c[2])
    \/ ActivateBlockMode
    \/ ActivateRemoveMode
    \/ EngineTimer
    \/ \E i \in 1 .. MaxWorkers, depth \in GuiDepths : WorkerEnter(i, depth)
    \/ \E i \in 1 .. MaxWorkers, seed \in Seeds : WorkerReturn(i, seed)
    \/ \E depth \in GuiDepths, seed \in Seeds : UpdateAiMove(depth, seed)

\* a game on the GUI without the Restart button
SpecPlay == InitPlay /\ [][NextPlay]_vars

\* the same with the Restart button
SpecGui == InitPlay /\ [][NextPlay \/ Restart]_vars

(***************************************************************************)
(* Properties.  They are stated with the predicates of the specification,  *)
(* written out on the grid, not with the operators that model the code.    *)
(***************************************************************************)
counters == <<user_blocks_remaining, ai_blocks_remaining,
              user_power_moves_remaining, ai_power_moves_remaining>>

\* in bounds and Empty
EmptyAt(x, y) == InBounds(x, y) /\ board[<<x, y>>] = " "
\* in bounds and held by the opponent of the current player
OpponentAt(x, y) == InBounds(x, y) /\ board[<<x, y>>] = Other(turn)

\* on grid b, cell c lies in a window of Target cells along one of the four
\* axes that are all in bounds and all hold the piece at c
HasRun(b, c) ==
    /\ b[c] \in {"X", "O"}
    /\ \E d \in {<<0, 1>>, <<1, 0>>, <<1, 1>>, <<-1, 1>>}, k \in 0 .. Target - 1 :
          \A j \in 0 .. Target - 1 :
              /\ <<c[1] + (j - k) * d[1], c[2] + (j - k) * d[2]>> \in DOMAIN b
              /\ b[<<c[1] + (j - k) * d[1], c[2] + (j - k) * d[2]>>] = b[c]

\* C1: a place, block or remove whose validity predicate is false returns
\* applied = false and leaves every grid cell unchanged, also for
\* coordinates outside the board.
C1_InvalidCallRejected ==
    [][/\ (call'.op \in {"place", "block"} /\ ~EmptyAt(call'.x, call'.y))
            => (ret' = <<FALSE, FALSE>> /\ board' = board)
       /\ (call'.op = "remove" /\ ~OpponentAt(call'.x, call'.y))
            => (ret' = FALSE /\ board' = board)]_vars

\* a call with coordinates outside the board, and a remove aimed at a cell
\* on the board, were rejected
C1_Witness ==
    \/ call.op \in {"place", "block"} /\ ~InBounds(call.x, call.y)
          /\ ret = <<FALSE, FALSE>>
    \/ call.op = "remove" /\ InBounds(call.x, call.y) /\ ret = FALSE

\* C5: a successful place sets the cell to the current player, records
\* last_move, adds 1 to turn_count; completing a run it sets game_over,
\* keeps the turn and returns (true, true), otherwise it passes the turn and
\* returns (true, false).
C5_PlaceEffect ==
    [][(call'.op = "place" /\ ret'[1]) =>
         /\ EmptyAt(call'.x, call'.y)
         /\ board' = [board EXCEPT ![<<call'.x, call'.y>>] = turn]
         /\ last_move' = <<call'.x, call'.y>>
         /\ turn_count' = turn_count + 1
         /\ IF HasRun(board', <<call'.x, call'.y>>)
            THEN game_over' /\ turn' = turn /\ ret' = <<TRUE, TRUE>>
            ELSE game_over' = game_over /\ turn' = Other(turn)
                 /\ ret' = <<TRUE, FALSE>>]_vars

\* a place won the game
C5_Witness ==
    /\ call.op = "place" /\ ret = <<TRUE, TRUE>>
    /\ game_over /\ board[<<call.x, call.y>>] = turn

\* a place did not win and passed the turn
C5_WitnessPass ==
    /\ call.op = "place" /\ ret = <<TRUE, FALSE>>
    /\ ~game_over /\ board[<<call.x, call.y>>] = Other(turn)

\* C6: a successful block sets the cell to Blocked, takes exactly 1 from
\* the current player's blocks_remaining, returns (true, true) and leaves
\* the turn, turn_count, game_over, both power-move counters and the other
\* player's blocks_remaining unchanged.
C6_BlockEffect ==
    [][(call'.op = "block" /\ ret'[1]) =>
         /\ EmptyAt(call'.x, call'.y)
         /\ board' = [board EXCEPT ![<<call'.x, call'.y>>] = "B"]
         /\ ret' = <<TRUE, TRUE>>
         /\ IF turn = "X"
            THEN /\ user_blocks_remaining' = user_blocks_remaining - 1
                 /\ ai_blocks_remaining' = ai_blocks_remaining
            ELSE /\ ai_blocks_remaining' = ai_blocks_remaining - 1
                 /\ user_blocks_remaining' = user_blocks_remaining
         /\ UNCHANGED <<turn, turn_count, game_over,
                        user_power_moves_remaining, ai_power_moves_remaining>>]_vars

\* O blocked a cell
C6_Witness ==
    /\ call.op = "block" /\ ret = <<TRUE, TRUE>>
    /\ turn = "O" /\ board[<<call.x, call.y>>] = "B"
    /\ ai_blocks_remaining = InitBlocks - 1

\* C7: a successful remove changes exactly one cell, from the opponent's
\* piece to Empty, takes exactly 1 from the current player's
\* power_moves_remaining only, records last_removed_tile, and passes the
\* turn if and only if switch_turn is true.
C7_RemoveEffect ==
    [][(call'.op = "remove" /\ ret' = TRUE) =>
         /\ OpponentAt(call'.x, call'.y)
         /\ board' = [board EXCEPT ![<<call'.x, call'.y>>] = " "]
         /\ last_removed_tile' = <<call'.x, call'.y>>
         /\ IF turn = "X"
            THEN /\ user_power_moves_remaining' = user_power_moves_remaining - 1
                 /\ ai_power_moves_remaining' = ai_power_moves_remaining
            ELSE /\ ai_power_moves_remaining' = ai_power_moves_remaining - 1
                 /\ user_power_moves_remaining' = user_power_moves_remaining
         /\ UNCHANGED <<user_blocks_remaining, ai_blocks_remaining>>
         /\ turn' = IF call'.switch_turn THEN Other(turn) ELSE turn]_vars

\* a remove that kept the turn, and one that passed it
C7_Witness ==
    /\ call.op = "remove" /\ ret = TRUE /\ ~call.switch_turn
    /\ board[<<call.x, call.y>>] = " " /\ last_removed_tile = <<call.x, call.y>>

C7_WitnessSwitch ==
    /\ call.op = "remove" /\ ret = TRUE /\ call.switch_turn
    /\ board[<<call.x, call.y>>] = " "

\* C8: each side's blocks_remaining stays in 0..1 and its
\* power_moves_remaining in 0..3, whatever calls are made.
C8_WithinBudget ==
    /\ user_blocks_remaining \in 0 .. InitBlocks
    /\ ai_blocks_remaining \in 0 .. InitBlocks
    /\ user_power_moves_remaining \in 0 .. InitPowerMoves
    /\ ai_power_moves_remaining \in 0 .. InitPowerMoves

\* C9: ai_move called on O's turn of a running game: after a place that
\* completes no run and after a remove the turn is X's; after a place that
\* completes a run the game is over, the win flag is set and the turn is
\* still O's; after a block the turn is still O's and game_over is as
\* before.
C9_TurnAfterAiMove ==
    [][(call'.op = "ai_move" /\ turn = "O" /\ ~game_over /\ ret'[1] # None) =>
         IF ret'[1][1] = "place"
         THEN IF HasRun(board', <<ret'[1][2], ret'[1][3]>>)
              THEN game_over' /\ ret'[2] /\ turn' = "O"
              ELSE ~ret'[2] /\ turn' = "X"
         ELSE IF ret'[1][1] = "remove" THEN turn' = "X"
         ELSE turn' = "O" /\ game_over' = game_over]_vars

\* the engine removed a piece and the turn is X's
C9_Witness ==
    /\ call.op = "ai_move" /\ ret # <<None, FALSE>>
    /\ ret[1][1] = "remove" /\ board[<<ret[1][2], ret[1][3]>>] = " "
    /\ turn = "X"

\* the engine won
C9_WitnessWin ==
    /\ call.op = "ai_move" /\ ret # <<None, FALSE>>
    /\ ret[1][1] = "place" /\ ret[2] /\ game_over /\ turn = "O"

\* the engine blocked and keeps the turn
C9_WitnessBlock ==
    /\ call.op = "ai_move" /\ ret # <<None, FALSE>>
    /\ ret[1][1] = "block" /\ board[<<ret[1][2], ret[1][3]>>] = "B"
    /\ turn = "O" /\ ~game_over

\* the engine placed without winning
C9_WitnessPlace ==
    /\ call.op = "ai_move" /\ ret # <<None, FALSE>>
    /\ ret[1][1] = "place" /\ ~ret[2] /\ ~game_over /\ turn = "X"
    /\ board[<<ret[1][2], ret[1][3]>>] = "O"

\* C10: once game_over is set, ai_move returns no move and no win, place
\* and block return applied = false, and none of them changes any field.
C10_NoOpWhenOver ==
    [][(game_over /\ call'.op \in {"ai_move", "place", "block"}) =>
         /\ UNCHANGED fields
         /\ ret' = IF call'.op = "ai_move" THEN <<None, FALSE>>
                   ELSE <<FALSE, FALSE>>]_vars

\* ai_move was called on a finished game
C10_Witness ==
    /\ game_over /\ calls = MaxCalls
    /\ call.op = "ai_move" /\ ret = <<None, FALSE>>

\* C2: a search called on a running game (ai_move_decision, or minimax
\* with any window and either role) returns with every cell, the four
\* counters and turn_count as they were before the call.
C2_SearchRestoresBoard ==
    [][(call'.op \in {"ai_move_decision", "minimax"} /\ ~game_over) =>
         /\ board' = board
         /\ counters' = counters
         /\ turn_count' = turn_count]_vars

\* C3: a search returns with last_move and last_removed_tile as they were
\* before the call.
C3_SearchRestoresLastMove ==
    [][call'.op \in {"ai_move_decision", "minimax"} =>
         /\ last_move' = last_move
         /\ last_removed_tile' = last_removed_tile]_vars

\* C3 (amended): a search returns with last_removed_tile as it was before
\* the call; last_move is either as before (no trial was explored) or
\* cleared, and it is cleared whenever ai_move_decision returns a move.
C3_SearchClearsLastMove ==
    [][call'.op \in {"ai_move_decision", "minimax"} =>
         /\ last_removed_tile' = last_removed_tile
         /\ last_move' \in {last_move, None}
         /\ (call'.op = "ai_move_decision" /\ ret' # None) => last_move' = None]_vars

\* ai_move_decision chose a move on a board with a removed tile on record
C3_Witness ==
    /\ call.op = "ai_move_decision" /\ ret # None
    /\ last_removed_tile # None /\ last_move = None
    /\ turn_count > EarlyTurns

\* grid b moved by s, and whether every piece of b stays on the grid then
Shifted(b, s) ==
    [c \in DOMAIN b |-> IF <<c[1] - s[1], c[2] - s[2]>> \in DOMAIN b
                        THEN b[<<c[1] - s[1], c[2] - s[2]>>] ELSE " "]
Shiftable(b, s) ==
    \A c \in DOMAIN b : b[c] # " " => <<c[1] + s[1], c[2] + s[2]>> \in DOMAIN b
Shifts == {<<0, 1>>, <<1, 0>>, <<0, -1>>, <<-1, 0>>}

\* C4: check_win(x, y) is true exactly when the cell holds X or O and lies
\* in an unbroken line of at least Target cells of that owner along one of
\* the four axes; it is false at a blocked or empty cell; and it gives the
\* same answer when the whole position is moved on the board.
C4_CheckWinIsRun ==
    [][call'.op = "check_win" =>
         /\ ret' = HasRun(board, <<call'.x, call'.y>>)
         /\ board[<<call'.x, call'.y>>] \in {"B", " "} => ret' = FALSE
         /\ \A s \in Shifts :
               (/\ Shiftable(board, s)
                /\ <<call'.x + s[1], call'.y + s[2]>> \in DOMAIN board) =>
               check_win(Shifted(board, s), call'.x + s[1], call'.y + s[2]) = ret'
      ]_vars

\* a run away from the first row and column was found, with a blocked cell
\* next to it
C4_Witness ==
    /\ call.op = "check_win" /\ ret = TRUE
    /\ call.x = WinSize - 1 /\ call.y = WinSize - 1
    /\ board[<<WinSize - 1, 0>>] = "B"
    /\ winning_sequence # <<>>

\* the empty cells of grid b where a piece of p would complete a run
CompletingCells(b, p) ==
    {c \in Cells : b[c] = " " /\ HasRun([b EXCEPT ![c] = p], c)}

\* what an ai_move step does when it follows the priority order: the own
\* win first, then the opponent's threat, then ai_move_decision; after a
\* shortcut the grid differs from the one before in the played cell only
FollowsPriority ==
    IF CompletingCells(board, "O") # {}
    THEN \E c \in CompletingCells(board, "O") :
            /\ ret' = << <<"place", c[1], c[2]>>, TRUE >>
            /\ board' = [board EXCEPT ![c] = "O"]
            /\ game_over'
    ELSE IF CompletingCells(board, "X") # {}
    THEN \E c \in CompletingCells(board, "X") :
            IF ai_blocks_remaining > 0
            THEN /\ ret'[1] = <<"block", c[1], c[2]>>
                 /\ board' = [board EXCEPT ![c] = "B"]
            ELSE /\ ret'[1] = <<"place", c[1], c[2]>>
                 /\ board' = [board EXCEPT ![c] = "O"]
    ELSE \E seed \in Seeds :
            ret'[1] = ai_move_decision(Game, call'.depth, seed).move

C11_WitnessThreat ==
    /\ call.op = "ai_move" /\ ret # <<None, FALSE>> /\ ret[1][1] = "block"
    /\ CompletingCells([board EXCEPT ![<<ret[1][2], ret[1][3]>>] = " "], "X") # {}

\* C12: find_winning_move returns a place at a cell only if the cell is
\* empty and O there completes a run, returns None only if no empty cell
\* is such, and leaves the grid, the counters, last_move and
\* winning_sequence as they were.
C12_FindWinningMove ==
    [][call'.op = "find_winning_move" =>
         /\ IF ret' = None THEN CompletingCells(board, "O") = {}
            ELSE /\ ret'[1] = "place"
                 /\ <<ret'[2], ret'[3]>> \in CompletingCells(board, "O")
         /\ UNCHANGED <<board, counters, last_move, winning_sequence>>]_vars

\* a winning cell was found, and the scan passed empty cells before it
C12_Witness ==
    /\ call.op = "find_winning_move" /\ ret # None
    /\ board[<<ret[2], ret[3]>>] = " "
    /\ \E c \in Cells : board[c] = " " /\ c[1] < ret[2]

\* no winning cell was found
C12_WitnessNone ==
    /\ call.op = "find_winning_move" /\ ret = None
    /\ \E c \in Cells : board[c] = "O"

\* C13: find_blocking_move returns a move at a cell only if the cell is
\* empty and X there would complete a run; the move is a block if
\* ai_blocks_remaining > 0 and a place otherwise; it returns None only if
\* no empty cell is such; the grid and the counters are as they were.
C13_FindBlockingMove ==
    [][call'.op = "find_blocking_move" =>
         /\ IF ret' = None THEN CompletingCells(board, "X") = {}
            ELSE /\ ret'[1] = IF ai_blocks_remaining > 0 THEN "block" ELSE "place"
                 /\ <<ret'[2], ret'[3]>> \in CompletingCells(board, "X")
         /\ UNCHANGED <<board, counters>>]_vars

\* a threat was found after the engine's block was spent
C13_Witness ==
    /\ call.op = "find_blocking_move" /\ ret # None
    /\ ret[1] = "place" /\ ai_blocks_remaining = 0
    /\ board[<<ret[2], ret[3]>>] = " "

\* a threat was found with the block in hand
C13_WitnessBlock ==
    /\ call.op = "find_blocking_move" /\ ret # None
    /\ ret[1] = "block" /\ ai_blocks_remaining > 0

\* the cells of the moves of one kind in a list of moves, and how many
\* moves of that kind the list holds
CellsOf(moves, kind) ==
    {<<moves[i][2], moves[i][3]>> : i \in {j \in DOMAIN moves : moves[j][1] = kind}}
CountOf(moves, kind) == Cardinality({j \in DOMAIN moves : moves[j][1] = kind})

\* the list holds exactly one move of the kind for each cell of S
ListsOnce(moves, kind, S) ==
    CellsOf(moves, kind) = S /\ CountOf(moves, kind) = Cardinality(S)

\* the empty cells next to a piece, in any of the eight directions
NextToPiece ==
    {c \in Cells : board[c] = " "
        /\ \E d \in Cells : /\ board[d] \in {"X", "O"}
                            /\ c[1] - d[1] \in {-1, 0, 1}
                            /\ c[2] - d[2] \in {-1, 0, 1}}

\* C14: the place candidates of get_valid_moves are exactly the empty
\* cells next to an X or O, each once; with no X or O on the board they
\* are exactly the centre cell.
C14_PlaceCandidates ==
    [][call'.op = "get_valid_moves" =>
         ListsOnce(ret', "place",
                   IF \E d \in Cells : board[d] \in {"X", "O"}
                   THEN NextToPiece
                   ELSE {<<Size \div 2, Size \div 2>>})]_vars

\* C15: block candidates are listed exactly when include_blocks is set and
\* the current player has a block left, one per empty cell; remove
\* candidates exactly when include_removes is set and the current player
\* has a power move left, one per cell of the opponent; nothing else is
\* listed besides places.
C15_BlockAndRemoveCandidates ==
    [][call'.op = "get_valid_moves" =>
         /\ ListsOnce(ret', "block",
                IF call'.include_blocks
                   /\ (IF turn = "X" THEN user_blocks_remaining
                       ELSE ai_blocks_remaining) > 0
                THEN {c \in Cells : board[c] = " "} ELSE {})
         /\ ListsOnce(ret', "remove",
                IF call'.include_removes
                   /\ (IF turn = "X" THEN user_power_moves_remaining
                       ELSE ai_power_moves_remaining) > 0
                THEN {c \in Cells : board[c] = Other(turn)} ELSE {})
         /\ \A i \in DOMAIN ret' : ret'[i][1] \in {"place", "block", "remove"}
         /\ UNCHANGED fields]_vars

\* X, out of blocks but with power moves, was offered removes and no block
C15_Witness ==
    /\ call.op = "get_valid_moves" /\ call.include_blocks /\ call.include_removes
    /\ turn = "X" /\ user_blocks_remaining = 0
    /\ CellsOf(ret, "block") = {} /\ CellsOf(ret, "remove") # {}
    /\ \E c \in Cells : board[c] = " "

\* C16: while turn_count < 10, get_valid_moves(include_removes = true)
\* lists no remove.
C16_NoEarlyRemoveCandidates ==
    [][(call'.op = "get_valid_moves" /\ call'.include_removes
          /\ turn_count < EarlyTurns) => CellsOf(ret', "remove") = {}]_vars

\* C16 (amended): get_valid_moves does not look at turn_count: while
\* turn_count < 10 it lists, with include_removes set, one remove for each
\* cell of the opponent if the current player has a power move left, and
\* none otherwise.
C16_EarlyRemoveCandidates ==
    [][(call'.op = "get_valid_moves" /\ call'.include_removes
          /\ turn_count < EarlyTurns) =>
         ListsOnce(ret', "remove",
                IF (IF turn = "X" THEN user_power_moves_remaining
                    ELSE ai_power_moves_remaining) > 0
                THEN {c \in Cells : board[c] = Other(turn)} ELSE {})]_vars

\* removes were listed early in the game
C16_Witness ==
    /\ call.op = "get_valid_moves" /\ call.include_removes
    /\ turn_count < EarlyTurns
    /\ CountOf(ret, "remove") >= 2

\* the last move is on record and its cell lies in a run of its owner p
LastMoveWonBy(p) ==
    last_move # None /\ board[last_move] = p /\ HasRun(board, last_move)

\* C17: is_terminal() is true exactly when last_move is set and completes
\* a run, or no cell is empty; it changes nothing.
C17_IsTerminal ==
    [][call'.op = "is_terminal" =>
         /\ ret' = (\/ LastMoveWonBy("X") \/ LastMoveWonBy("O")
                    \/ \A c \in Cells : board[c] # " ")
         /\ UNCHANGED fields]_vars

\* a full board without a win was found terminal
C17_Witness ==
    /\ call.op = "is_terminal" /\ ret = TRUE
    /\ \A c \in Cells : board[c] # " "
    /\ ~game_over /\ winning_sequence = <<>>

\* a won game with empty cells was found terminal
C17_WitnessWin ==
    /\ call.op = "is_terminal" /\ ret = TRUE
    /\ \E c \in Cells : board[c] = " "

\* C20: evaluate() returns 10000 exactly when last_move is set, holds O
\* and completes a run, -10000 exactly when it is set, holds X and
\* completes a run, and heuristic_evaluation() in every other case, a full
\* board without a win on the last move included.
C20_Evaluate ==
    [][call'.op = "evaluate" =>
         /\ (ret' = WinScore) <=> LastMoveWonBy("O")
         /\ (ret' = -WinScore) <=> LastMoveWonBy("X")
         /\ ~(LastMoveWonBy("O") \/ LastMoveWonBy("X"))
               => ret' = heuristic_evaluation(Game)]_vars

\* a drawn full board was given its heuristic value
C20_Witness ==
    /\ call.op = "evaluate" /\ ret \notin {WinScore, -WinScore}
    /\ \A c \in Cells : board[c] # " "
    /\ last_move # None

\* X's win was given -10000
C20_WitnessLoss ==
    /\ call.op = "evaluate" /\ ret = -WinScore /\ game_over

\* C18: minimax called with depth 0, or on a board where is_terminal()
\* holds, with either role, returns the value of evaluate() on that board
\* and changes nothing.
C18_SearchBaseCase ==
    [][(call'.op = "minimax"
          /\ \/ call'.depth = 0
             \/ LastMoveWonBy("X") \/ LastMoveWonBy("O")
             \/ \A c \in Cells : board[c] # " ") =>
         /\ ret' = evaluate(Game)
         /\ UNCHANGED fields]_vars

\* minimax was called with depth to spare on a won board with empty cells
C18_Witness ==
    /\ call.op = "minimax" /\ call.depth > 0 /\ call.maximizing_player
    /\ game_over /\ ret = WinScore
    /\ \E c \in Cells : board[c] = " "

\* minimax with depth 0 gave the heuristic value of a running game
C18_WitnessDepth0 ==
    /\ call.op = "minimax" /\ call.depth = 0 /\ ~game_over
    /\ ret \notin {WinScore, -WinScore}
    /\ \E c \in Cells : board[c] = "O"

(***************************************************************************)
(* The recursion of minimax with the two `break` statements removed: the   *)
(* same enumeration, filters, trial moves and undo, every move explored.   *)
(***************************************************************************)
RECURSIVE full_minimax(_, _, _, _)
RECURSIVE full_max_loop(_, _, _, _, _, _)
RECURSIVE full_min_loop(_, _, _, _, _, _)

full_max_next(r, moves, i, depth, max_eval, seed) ==
    full_max_loop(r.g, moves, i + 1, depth, Max(max_eval, r.val), seed)

full_max_loop(g, moves, i, depth, max_eval, seed) ==
    IF i > Len(moves) THEN [g |-> g, val |-> max_eval]
    ELSE IF SkipMax(g, moves[i][1], moves[i][2], moves[i][3])
    THEN full_max_loop(g, moves, i + 1, depth, max_eval, seed)
    ELSE full_max_next(
            TrialUndo(full_minimax(TrialApply(g, "O", moves[i][1], moves[i][2], moves[i][3]),
                                   depth - 1, FALSE, seed),
                      "O", moves[i][1], moves[i][2], moves[i][3],
                      g.board[<<moves[i][2], moves[i][3]>>]),
            moves, i, depth, max_eval, seed)

full_min_next(r, moves, i, depth, min_eval, seed) ==
    full_min_loop(r.g, moves, i + 1, depth, Min(min_eval, r.val), seed)

full_min_loop(g, moves, i, depth, min_eval, seed) ==
    IF i > Len(moves) THEN [g |-> g, val |-> min_eval]
    ELSE IF SkipMin(g, moves[i][1], moves[i][2], moves[i][3])
    THEN full_min_loop(g, moves, i + 1, depth, min_eval, seed)
    ELSE full_min_next(
            TrialUndo(full_minimax(TrialApply(g, "X", moves[i][1], moves[i][2], moves[i][3]),
                                   depth - 1, TRUE, seed),
                      "X", moves[i][1], moves[i][2], moves[i][3],
                      g.board[<<moves[i][2], moves[i][3]>>]),
            moves, i, depth, min_eval, seed)

full_minimax(g, depth, maximizing_player, seed) ==
    IF depth = 0 \/ is_terminal(g) THEN [g |-> g, val |-> evaluate(g)]
    ELSE IF maximizing_player
    THEN RestorePower(full_max_loop(g, get_valid_moves(g, TRUE, TRUE, seed), 1,
                                    depth, -INF, seed),
                      g.ai_power_moves_remaining, g.user_power_moves_remaining)
    ELSE RestorePower(full_min_loop(g, get_valid_moves(g, TRUE, TRUE, seed), 1,
                                    depth, INF, seed),
                      g.ai_power_moves_remaining, g.user_power_moves_remaining)

\* C19: the value minimax returns for the full window equals the value of
\* the recursion without the pruning break, on the same board, depth and
\* role, for every order of the move list.
C19_PruningKeepsValue ==
    [][(call'.op = "minimax" /\ call'.alpha = -INF /\ call'.beta = INF) =>
         \A seed \in Seeds :
            ret' = full_minimax(Game, call'.depth, call'.maximizing_player, seed).val]_vars

\* a search two plies deep with several moves to choose from returned
C19_Witness ==
    /\ call.op = "minimax" /\ call.alpha = -INF /\ call.beta = INF
    /\ call.depth = MaxDepth - 1 /\ ~game_over
    /\ ret \notin {INF, -INF, WinScore, -WinScore}
    /\ Cardinality({c \in Cells : board[c] = " "}) >= 4

\* C21: no call of place_piece, block_tile, remove_tile or ai_move, the
\* searches ai_move runs included, leaves a player with more blocks or
\* more power moves than before the call.
C21_CountersNeverIncrease ==
    [][/\ user_blocks_remaining' <= user_blocks_remaining
       /\ ai_blocks_remaining' <= ai_blocks_remaining
       /\ user_power_moves_remaining' <= user_power_moves_remaining
       /\ ai_power_moves_remaining' <= ai_power_moves_remaining]_vars

\* ai_move went through a search, late in a game in which power moves were
\* spent, and removed a piece
C21_Witness ==
    /\ call.op = "ai_move" /\ ret # <<None, FALSE>> /\ ret[1][1] = "remove"
    /\ ai_power_moves_remaining = InitPowerMoves - 1
    /\ user_power_moves_remaining = 0

\* C30: a blocked cell stays blocked: no call of place_piece, block_tile,
\* remove_tile or ai_move changes a cell that holds B.
C30_BlockedStaysBlocked ==
    [][\A c \in Cells : board[c] = "B" => board'[c] = "B"]_vars

\* the cells of a sequence
Range(q) == {q[i] : i \in DOMAIN q}

\* the cells c + k * d for k from lo to hi
Segment(c, d, lo, hi) == {<<c[1] + k * d[1], c[2] + k * d[2]>> : k \in lo .. hi}

\* q lists, each once, the cells of the whole run of p through c along one
\* of the four axes: the run holds p throughout and the cell before it and
\* the cell after it do not
IsRunThrough(b, q, c, p) ==
    /\ Cardinality(Range(q)) = Len(q)
    /\ \E d \in {<<1, 0>>, <<0, 1>>, <<1, 1>>, <<1, -1>>} :
       \E lo \in 1 - WinSize .. 0 : \E hi \in 0 .. WinSize - 1 :
          /\ Range(q) = Segment(c, d, lo, hi)
          /\ \A e \in Segment(c, d, lo, hi) : e \in DOMAIN b /\ b[e] = p
          /\ \A e \in Segment(c, d, lo - 1, lo - 1) \cup Segment(c, d, hi + 1, hi + 1) :
                e \in DOMAIN b => b[e] # p

\* C22: after check_win finds a win at the cell just written, as place_piece
\* calls it, winning_sequence contains that cell and lists, each once, the
\* cells of one unbroken run of the winner's piece through it along a
\* single axis, at least Target long and exactly the whole run; check_win
\* called with update_winning_sequence=False leaves winning_sequence alone.
C22_WinningSequence ==
    [][/\ (call'.op = "check_win" /\ ret') =>
             /\ <<call'.x, call'.y>> \in Range(winning_sequence')
             /\ Len(winning_sequence') >= Target
             /\ IsRunThrough(board, winning_sequence', <<call'.x, call'.y>>,
                             board[<<call'.x, call'.y>>])
       /\ call'.op = "check_win_only" => winning_sequence' = winning_sequence
      ]_vars

\* a piece that joins two shorter runs won: the stored run is longer than
\* Target and extends on both sides of the cell
C22_Witness ==
    /\ call.op = "check_win" /\ ret = TRUE
    /\ Len(winning_sequence) > Target
    /\ \E d \in {<<1, 0>>, <<0, 1>>, <<1, 1>>, <<1, -1>>} :
          /\ <<call.x + d[1], call.y + d[2]>> \in Range(winning_sequence)
          /\ <<call.x - d[1], call.y - d[2]>> \in Range(winning_sequence)

\* a check that does not store found a win whose sequence differs from the
\* stored one
C22_WitnessOnly ==
    /\ call.op = "check_win_only" /\ ret = TRUE
    /\ winning_sequence # WinSeq(board, call.x, call.y)

\* the cells of grid b that hold p
Holding(b, p) == {c \in DOMAIN b : b[c] = p}

\* the sum of evaluate_position over the cells of S, for player on grid b
RECURSIVE PositionSum(_, _, _)
PositionSum(S, b, player) ==
    IF S = {} THEN 0
    ELSE LET c == CHOOSE e \in S : TRUE
         IN  evaluate_position(b, c[1], c[2], player)
             + PositionSum(S \ {c}, b, player)

\* C29: heuristic_evaluation returns the sum of evaluate_position over the
\* cells that hold O, minus the sum over the cells that hold X, minus 50 for
\* each power move the engine has spent of its 3, plus 50 for each the human
\* has spent; it changes no state.
C29_HeuristicEvaluation ==
    [][call'.op = "heuristic_evaluation" =>
         /\ ret' = PositionSum(Holding(board, "O"), board, "O")
                   - PositionSum(Holding(board, "X"), board, "X")
                   - 50 * (3 - ai_power_moves_remaining)
                   + 50 * (3 - user_power_moves_remaining)
         /\ UNCHANGED fields
      ]_vars

\* the engine has spent a power move and the human has not; both have
\* pieces on the board
C29_Witness ==
    /\ call.op = "heuristic_evaluation"
    /\ ai_power_moves_remaining < 3 /\ user_power_moves_remaining = 3
    /\ Holding(board, "O") # {} /\ Holding(board, "X") # {}
    /\ ret # 0

\* the game on the board is not over: the last move did not win and a cell
\* is empty
Running ==
    /\ ~LastMoveWonBy("X") /\ ~LastMoveWonBy("O")
    /\ \E c \in Cells : board[c] = " "

\* the step is a call of minimax with one level to search and the full
\* window, on a running game: no value ends the loop early, so the node
\* tries every candidate it does not skip
FullNode ==
    /\ call'.op = "minimax" /\ call'.depth = 1
    /\ call'.alpha = -INF /\ call'.beta = INF
    /\ Running

\* C23: the recursive call after a trial Block keeps the node's role
\* (maximizing stays maximizing, minimizing stays minimizing); after a
\* trial Place or Remove the role flips.
C23_BlockKeepsRole ==
    [][(FullNode /\ \E m \in Explored(Game, call'.maximizing_player) :
                       m[1] = "block") =>
         /\ ChildRole(call'.maximizing_player, "block") = call'.maximizing_player
         /\ ChildRole(call'.maximizing_player, "place") = ~call'.maximizing_player
         /\ ChildRole(call'.maximizing_player, "remove") = ~call'.maximizing_player
      ]_vars

\* C24: every Remove a node tries clears a cell that holds the piece of the
\* opponent of the node's mover (X at a maximizing node, O at a minimizing
\* one), and a node tries a Block exactly when its own mover has blocks
\* left and a cell other than last_removed_tile is empty.
C24_TrialsByMover ==
    [][FullNode =>
         LET mover == IF call'.maximizing_player THEN "O" ELSE "X"
             left == IF call'.maximizing_player THEN ai_blocks_remaining
                     ELSE user_blocks_remaining
             E == Explored(Game, call'.maximizing_player)
         IN  /\ \A m \in E : m[1] = "remove" => board[<<m[2], m[3]>>] = Other(mover)
             /\ (\E m \in E : m[1] = "block") =>  left > 0
             /\ (left > 0 /\ \E c \in Cells : board[c] = " " /\ c # last_removed_tile)
                   => \E m \in E : m[1] = "block"
      ]_vars

\* C25: while turn_count < 10 no node of the search, maximizing or
\* minimizing, tries a Remove, and ai_move_decision returns no Remove.
C25_NoEarlyTrialRemove ==
    [][/\ (FullNode /\ turn_count < 10) =>
             \A m \in Explored(Game, call'.maximizing_player) : m[1] # "remove"
       /\ (call'.op = "ai_move_decision" /\ turn_count < 10 /\ ret' # None) =>
             ret'[1] # "remove"
      ]_vars

\* C27: minimax called with depth > 0 on a running game, at a node that
\* skips every candidate, returns 0.
C27_NothingExploredIsZero ==
    [][(call'.op = "minimax" /\ call'.depth > 0 /\ Running
          /\ Explored(Game, call'.maximizing_player) = {}) =>
         ret' = 0]_vars

\* C28: ai_move_decision returns one of the candidates it did not skip
\* whenever there is one, and None when there is none.
C28_ReturnsSurvivor ==
    [][call'.op = "ai_move_decision" =>
         IF Explored(Game, TRUE) = {} THEN ret' = None
         ELSE ret' \in Explored(Game, TRUE)]_vars

\* C26: the cell vacated by a remove is kept from the search for the
\* engine's next turn only: once ai_move has made that turn, the search no
\* longer skips a move at that cell.
C26_EligibleAfterEngineTurn ==
    [][(call'.op = "ai_move" /\ ret'[1] # None /\ last_removed_tile # None) =>
         ~SkipMax(Game', "place", last_removed_tile[1], last_removed_tile[2])
      ]_vars

\* C31: every place candidate get_valid_moves returns names a cell that is
\* in bounds and empty, the centre cell of the fallback included.
C31_PlaceCandidatesEmpty ==
    [][call'.op = "get_valid_moves" =>
         \A i \in DOMAIN ret' :
            ret'[i][1] = "place" => EmptyAt(ret'[i][2], ret'[i][3])]_vars

C33_RunMeansGameOver ==
    (\E c \in Cells : HasRun(board, c)) => game_over

\* ai_move completed a line of O with the piece it placed
C33_Witness ==
    /\ call.op = "ai_move" /\ ret # <<None, FALSE>> /\ ret[1][1] = "place"
    /\ HasRun(board, <<ret[1][2], ret[1][3]>>)
    /\ board[<<ret[1][2], ret[1][3]>>] = "O"
    /\ game_over

\* place_piece completed a line of X
C33_WitnessPlace ==
    /\ call.op = "place" /\ InBounds(call.x, call.y)
    /\ HasRun(board, <<call.x, call.y>>)
    /\ board[<<call.x, call.y>>] = "X" /\ game_over

\* C34: once game_over is true it stays true, and no later place_piece,
\* block_tile, remove_tile or ai_move call changes a grid cell, a counter,
\* turn_count or turn.
C34_GameOverFreezes ==
    [][game_over =>
         /\ game_over'
         /\ board' = board
         /\ counters' = counters
         /\ turn_count' = turn_count
         /\ turn' = turn]_vars

\* C35: every game on the GUI terminates: while the game is not over and
\* the grid has an Empty cell, play goes on, so whenever the engine has
\* nothing left to run it is the human's turn.
C35_PlayGoesOn ==
    (Quiescent /\ ~game_over /\ (\E c \in Cells : board[c] = " "))
        => turn = "X"

\* C36: while a thread is inside ai_move on the live board, no click of the
\* human applies a Place, Block or Remove to that board and no
\* update_ai_move writes its turn or calls the engine on it, whatever the
\* order of clicks, restarts, timers, threads and callbacks.
C36_NothingWritesWhileThinking ==
    [][(Thinking /\ call'.op \in {"handle_click", "update_ai_move"})
          => (board' = board /\ turn' = turn)]_vars

\* C37: without restarts, a thread enters ai_move only when turn is O or
\* the game is over, whatever the order of clicks, timers, threads and
\* callbacks.
C37_EngineStartsOnItsTurn ==
    [][call'.op = "ai_move_enter" => (turn = "O" \/ game_over)]_vars

====
